---- MODULE Spec2Model ----
(***************************************************************************)
(* timetracker: the time sheet (ledger) kept in time_sheet.json, the       *)
(* commands init, start, stop, switch, add and subprojects add that load,  *)
(* change and save it, the analyze command that reports on it, and the     *)
(* serde_json encoding between the file and the time sheet.                *)
(*                                                                         *)
(* One command runs per process invocation (src/main.rs); each action      *)
(* below is one whole command: load, change in memory, save.               *)
(***************************************************************************)
EXTENDS Integers, Sequences, FiniteSets, TLC

\* ------------------------------------------------------------------ bounds
\* Commands run one after the other, each at a later clock reading; no
\* command starts at the reading MaxTime or later.
MaxTime == 3
\* Clock ticks in one minute: Local::now() is finer than the "%Y-%m-%d %H:%M"
\* format of the add command.
TicksPerMinute == 2

\* The largest subproject id compared.
MaxId == 2

\* The descriptions wrapped: at most MaxWords words between single spaces,
\* each of at most MaxWordLength user-perceived characters, into lines of a
\* budget of at most MaxLineLength.
MaxWords == 3
MaxWordLength == 3
MaxLineLength == 4

\* The sessions a time sheet grows to while the clock may stand still
\* between two commands.
MaxSessions == 3

\* ------------------------------------------------------------------ values
\* Option<T>: None is the empty tuple, Some(v) the one-element tuple.
None == <<>>
Some(v) == <<v>>
is_some(o) == Len(o) = 1
is_none(o) == Len(o) = 0
unwrap(o) == o[1]

\* f32 hourly rates as f32::classify sees them: a finite number, or a
\* non-finite one ("inf", "NaN" parse as f32 too, main.rs rate validator).
Finite(n) == [class |-> "normal", val |-> n]
NonFinite == [class |-> "infinite", val |-> 0]
Rates == {Finite(50), NonFinite}

ProjectNames == {"Acme"}
Descriptions == {"design"}
SubprojectNames == {"web"}
\* The clock readings at which a command starts.
Times == 0..(MaxTime - 1)

\* TimetrackerError, as the command's result; the two TimeSheet errors carry
\* their message.
Ok == "Ok"
IOError == "IOError"
SerdeJSON == "SerdeJSON"
ChronoParse == "ChronoParse"
AlreadyRunning == "TimeSheet(Last work session not finished!)"
NoRunningSession == "TimeSheet(No unfinished work session found to stop!)"
\* .unwrap() on an Err: the process aborts instead of returning an error.
Panic == "panic"

\* WorkSession::new
WorkSession(start, stop, description, homeoffice) ==
    [start |-> start, stop |-> stop, description |-> description,
     homeoffice |-> homeoffice]

\* start_new_work_session leaving the description empty.
start_new_work_session_undescribed(start, description, homeoffice) ==
    [start |-> start, description |-> "", homeoffice |-> homeoffice,
     stop |-> None]

\* WorkSession::start_new_work_session
start_new_work_session(start, description, homeoffice) ==
    [start |-> start, description |-> description, homeoffice |-> homeoffice,
     stop |-> None]

\* SubProject::new
SubProject(id, name, description) ==
    [id |-> id, name |-> name, description |-> description]

\* impl PartialEq for SubProject: name, description and id are compared.
SubProject_eq(self, other) ==
    self.name = other.name /\ self.description = other.description
    /\ self.id = other.id

\* impl Ord for SubProject: self.id.cmp(&other.id).
SubProject_cmp(self, other) ==
    IF self.id < other.id THEN "Less"
    ELSE IF self.id = other.id THEN "Equal"
    ELSE "Greater"

\* impl PartialOrd for SubProject: Some(self.cmp(&other)); < and > are
\* PartialOrd's lt and gt.
SubProject_partial_cmp(self, other) == Some(SubProject_cmp(self, other))
SubProject_lt(self, other) == SubProject_partial_cmp(self, other) = Some("Less")
SubProject_gt(self, other) == SubProject_partial_cmp(self, other) = Some("Greater")

\* TimeSheet::new
TimeSheet(project_name, hourly_rate) ==
    [project_name |-> project_name, hourly_rate |-> hourly_rate,
     work_sessions |-> <<>>, subprojects |-> <<>>]

\* ------------------------------------------------------- the JSON encoding
\* The meaning of the file's text: JSON values, tagged by their JSON type.
JNull == [json |-> "null"]
JNumber(n) == [json |-> "number", n |-> n]
\* DateTime<Local> is written as an RFC 3339 string naming the same instant.
JDateTime(t) == [json |-> "string", rfc3339 |-> t]

\* serde_json's serialize_f32: NaN and the infinities are written as null.
rate_to_json(o) ==
    IF is_none(o) THEN JNull
    ELSE IF unwrap(o).class = "infinite" THEN JNull
    ELSE JNumber(unwrap(o).val)

rate_from_json(j) ==
    IF j.json = "null" THEN None ELSE Some(Finite(j.n))

stop_to_json(o) == IF is_none(o) THEN JNull ELSE JDateTime(unwrap(o))

stop_from_json(j) == IF j.json = "null" THEN None ELSE Some(j.rfc3339)

\* #[derive(Serialize)] for WorkSession: every field is written.
session_to_json(s) ==
    [start |-> JDateTime(s.start), stop |-> stop_to_json(s.stop),
     description |-> s.description, homeoffice |-> s.homeoffice]

\* session_from_json reading a missing homeoffice field as true.
session_from_json_defaulting_true(j) ==
    [start |-> j.start.rfc3339, stop |-> stop_from_json(j.stop),
     description |-> j.description,
     homeoffice |-> IF "homeoffice" \in DOMAIN j THEN j.homeoffice ELSE TRUE]

\* #[derive(Deserialize)] for WorkSession; #[serde(default)] homeoffice.
session_from_json(j) ==
    [start |-> j.start.rfc3339, stop |-> stop_from_json(j.stop),
     description |-> j.description,
     homeoffice |-> IF "homeoffice" \in DOMAIN j THEN j.homeoffice ELSE FALSE]

\* TimeSheet::to_json
to_json(ts) ==
    [project_name |-> ts.project_name,
     hourly_rate |-> rate_to_json(ts.hourly_rate),
     work_sessions |->
        [i \in 1..Len(ts.work_sessions) |-> session_to_json(ts.work_sessions[i])],
     subprojects |-> ts.subprojects]

\* TimeSheet::from_json; #[serde(default)] subprojects.
from_json(doc) ==
    [project_name |-> doc.project_name,
     hourly_rate |-> rate_from_json(doc.hourly_rate),
     work_sessions |->
        [i \in 1..Len(doc.work_sessions) |-> session_from_json(doc.work_sessions[i])],
     subprojects |-> IF "subprojects" \in DOMAIN doc THEN doc.subprojects ELSE <<>>]

\* ------------------------------------------------------------------ the file
\* time_sheet.json: absent, holding the text of a JSON document, or cut
\* short (created empty or partly written, which is no JSON document).
Absent == [state |-> "absent"]
Truncated == [state |-> "truncated"]
Written(doc) == [state |-> "json", doc |-> doc]
\* The text of one document written over the beginning of a longer one: no
\* JSON document either.
Garbled == [state |-> "garbled"]

\* TimeSheet::load
load(f) ==
    IF f.state = "absent" THEN [res |-> IOError, sheet |-> None]
    ELSE IF f.state \in {"truncated", "garbled"}
    THEN [res |-> SerdeJSON, sheet |-> None]
    ELSE [res |-> Ok, sheet |-> Some(from_json(f.doc))]

\* What the file system does to one save: File::create fails (the file is
\* left alone); the write fails after File::create emptied the file, inside
\* write! (text of BufWriter's capacity or more) or when the BufWriter is
\* dropped (shorter text); or everything is written.
WriteOutcomes == {"written", "create_failed", "write_failed", "flush_failed"}

\* TimeSheet::save
save(ts, f, outcome) ==
    CASE outcome = "create_failed" -> [res |-> IOError, file |-> f]
      [] outcome = "write_failed" -> [res |-> IOError, file |-> Truncated]
      [] outcome = "flush_failed" -> [res |-> Ok, file |-> Truncated]
      [] OTHER -> [res |-> Ok, file |-> Written(to_json(ts))]

\* --------------------------------------------------- the commands, in memory
\* Local.datetime_from_str(text, DATETIME_FORMAT): the text of a start or
\* stop argument either follows "%Y-%m-%d %H:%M" and names a whole minute,
\* or does not parse.
Malformed == [wellformed |-> FALSE, minute |-> 0]
WellFormed(m) == [wellformed |-> TRUE, minute |-> m]
\* The whole minutes within the clock's range.
Minutes == {m \in Times : m * TicksPerMinute <= MaxTime}
DateTexts == {Malformed} \cup {WellFormed(m) : m \in Minutes}

datetime_from_str(text) ==
    IF text.wellformed THEN Some(text.minute * TicksPerMinute) ELSE None

\* Vec::sort with Ord for WorkSession (by start only): a stable sort.
RECURSIVE insert_by_start(_, _)
insert_by_start(sorted, s) ==
    IF sorted = <<>> THEN <<s>>
    ELSE IF sorted[Len(sorted)].start <= s.start THEN Append(sorted, s)
    ELSE Append(insert_by_start(SubSeq(sorted, 1, Len(sorted) - 1), s),
                sorted[Len(sorted)])

RECURSIVE sort(_)
sort(v) ==
    IF v = <<>> THEN <<>>
    ELSE insert_by_start(sort(SubSeq(v, 1, Len(v) - 1)), v[Len(v)])

\* Option<&str> description -> the String desc (lib.rs 246, 259-269).
desc_of(description) == IF is_some(description) THEN unwrap(description) ELSE ""

\* start_on without the look at the last session.
start_on_unchecked(ts, start_time, description, homeoffice) ==
    [res |-> Ok,
     sheet |-> [ts EXCEPT !.work_sessions =
                   Append(@, start_new_work_session(
                                start_time, desc_of(description), homeoffice))]]

\* start_on putting the new session in front of the others.
start_on_prepending(ts, start_time, description, homeoffice) ==
    IF ts.work_sessions # <<>>
       /\ is_none(ts.work_sessions[Len(ts.work_sessions)].stop)
    THEN [res |-> AlreadyRunning, sheet |-> ts]
    ELSE [res |-> Ok,
          sheet |-> [ts EXCEPT !.work_sessions =
                        <<start_new_work_session(
                             start_time, desc_of(description), homeoffice)>> \o @]]

\* start_working_session between load and save: the lifecycle check and
\* the push of the new session.
start_on(ts, start_time, description, homeoffice) ==
    IF ts.work_sessions # <<>>
       /\ is_none(ts.work_sessions[Len(ts.work_sessions)].stop)
    THEN [res |-> AlreadyRunning, sheet |-> ts]
    ELSE [res |-> Ok,
          sheet |-> [ts EXCEPT !.work_sessions =
                        Append(@, start_new_work_session(
                                     start_time, desc_of(description), homeoffice))]]

\* stop_on looking only for a last session, not at its stop.
stop_on_any_last(ts, stop_time, description, homeoffice) ==
    IF ts.work_sessions = <<>>
    THEN [res |-> NoRunningSession, sheet |-> ts]
    ELSE LET n == Len(ts.work_sessions)
             stopped == [ts.work_sessions[n] EXCEPT
                            !.stop = Some(stop_time),
                            !.description = IF is_some(description)
                                            THEN desc_of(description) ELSE @,
                            !.homeoffice = @ \/ homeoffice]
         IN [res |-> Ok,
             sheet |-> [ts EXCEPT !.work_sessions =
                           Append(SubSeq(@, 1, n - 1), stopped)]]

\* stop_on assigning the homeoffice argument whatever its value.
stop_on_assigning_homeoffice(ts, stop_time, description, homeoffice) ==
    IF ts.work_sessions = <<>>
    THEN [res |-> NoRunningSession, sheet |-> ts]
    ELSE IF is_some(ts.work_sessions[Len(ts.work_sessions)].stop)
    THEN [res |-> NoRunningSession, sheet |-> ts]
    ELSE LET n == Len(ts.work_sessions)
             stopped == [ts.work_sessions[n] EXCEPT
                            !.stop = Some(stop_time),
                            !.description = IF is_some(description)
                                            THEN desc_of(description) ELSE @,
                            !.homeoffice = homeoffice]
         IN [res |-> Ok,
             sheet |-> [ts EXCEPT !.work_sessions =
                           Append(SubSeq(@, 1, n - 1), stopped)]]

\* stop_working_session between load and save: the lifecycle check, then
\* pop, set stop, description and homeoffice, push.
stop_on(ts, stop_time, description, homeoffice) ==
    IF ts.work_sessions = <<>>
    THEN [res |-> NoRunningSession, sheet |-> ts]
    ELSE IF is_some(ts.work_sessions[Len(ts.work_sessions)].stop)
    THEN [res |-> NoRunningSession, sheet |-> ts]
    ELSE LET n == Len(ts.work_sessions)
             popped == ts.work_sessions[n]
             stopped == [popped EXCEPT !.stop = Some(stop_time)]
             described == IF is_some(description)
                          THEN [stopped EXCEPT !.description = desc_of(description)]
                          ELSE stopped
             last_work_session == IF homeoffice
                                  THEN [described EXCEPT !.homeoffice = homeoffice]
                                  ELSE described
         IN [res |-> Ok,
             sheet |-> [ts EXCEPT !.work_sessions =
                           Append(SubSeq(@, 1, n - 1), last_work_session)]]

\* add_on without the sort.
add_on_unsorted(ts, work_session) ==
    [ts EXCEPT !.work_sessions = Append(@, work_session)]

\* add_on forgetting the subprojects.
add_on_clearing_subprojects(ts, work_session) ==
    [ts EXCEPT !.work_sessions = sort(Append(@, work_session)),
               !.subprojects = <<>>]

\* add_work_session_to_time_sheet after load: push, then sort.
add_on(ts, work_session) ==
    [ts EXCEPT !.work_sessions = sort(Append(@, work_session))]

\* add_subproject_on numbering the subprojects from one.
add_subproject_on_from_one(ts, name, description) ==
    [ts EXCEPT !.subprojects =
        Append(@, SubProject(Len(ts.subprojects) + 1, name, description))]

\* add_subproject after load: id = subprojects.len(), push.
add_subproject_on(ts, name, description) ==
    [ts EXCEPT !.subprojects =
        Append(@, SubProject(Len(ts.subprojects), name, description))]

\* ------------------------------------------------------------ the analysis
\* The calendar of DateTime<Local>: days of MinutesPerDay minutes, years of
\* DaysPerYear days (no leap days); the clock reads 0 at the start of the
\* third day of 2024.
MinutesPerHour == 60
MinutesPerDay == 1440
DaysPerYear == 365
TicksPerDay == TicksPerMinute * MinutesPerDay
TicksPerYear == TicksPerDay * DaysPerYear

\* DateTime::date: the calendar date, as the number of the day.
date(t) == t \div TicksPerDay

\* format!("{}", work_date.format("%Y")): the year of the date. The years
\* here have four digits, for which the order of the texts is the order of
\* the numbers.
year(t) == 2024 + ((date(t) + 2) \div DaysPerYear)

\* Duration::num_minutes: whole minutes, rounded towards zero.
num_minutes(d) ==
    IF d >= 0 THEN d \div TicksPerMinute ELSE -((-d) \div TicksPerMinute)

\* stop_time_of valuing an open session up to its own start.
stop_time_of_start(work_session, t) ==
    IF is_some(work_session.stop) THEN unwrap(work_session.stop)
    ELSE work_session.start

\* stop_time in the loop: the stop of a closed session, Local::now() for an open one.
stop_time_of(work_session, t) ==
    IF is_some(work_session.stop) THEN unwrap(work_session.stop) ELSE t

\* duration = (stop_time - start).num_minutes() as f32 / 60f32, kept here as
\* the number of whole minutes, that is in units of 1/MinutesPerHour hour.
duration(work_session, t) == num_minutes(stop_time_of(work_session, t) - work_session.start)

\* session_cost = duration * r, in units of 1/MinutesPerHour of the currency.
session_cost(work_session, t, r) == duration(work_session, t) * r.val

\* format!("{:.02}", x) of x = n / MinutesPerHour: the nearest hundredth.
format_02(n) == (2 * 100 * n + MinutesPerHour) \div (2 * MinutesPerHour)

\* work_time adding up the closed sessions only.
RECURSIVE work_time_of_closed(_, _)
work_time_of_closed(work_sessions, t) ==
    IF work_sessions = <<>> THEN 0
    ELSE work_time_of_closed(SubSeq(work_sessions, 1, Len(work_sessions) - 1), t)
         + (IF is_some(work_sessions[Len(work_sessions)].stop)
            THEN duration(work_sessions[Len(work_sessions)], t) ELSE 0)

\* work_time after the loop over the sessions.
RECURSIVE work_time(_, _)
work_time(work_sessions, t) ==
    IF work_sessions = <<>> THEN 0
    ELSE work_time(SubSeq(work_sessions, 1, Len(work_sessions) - 1), t)
         + duration(work_sessions[Len(work_sessions)], t)

\* project_cost after the loop over the sessions.
RECURSIVE project_cost(_, _, _)
project_cost(work_sessions, t, r) ==
    IF work_sessions = <<>> THEN 0
    ELSE project_cost(SubSeq(work_sessions, 1, Len(work_sessions) - 1), t, r)
         + session_cost(work_sessions[Len(work_sessions)], t, r)

contains(vec, x) == \E i \in 1..Len(vec) : vec[i] = x

\* homeoffice_map pushing the date of every homeoffice session.
RECURSIVE homeoffice_map_of_sessions(_)
homeoffice_map_of_sessions(work_sessions) ==
    IF work_sessions = <<>> THEN [y \in {} |-> <<>>]
    ELSE LET map == homeoffice_map_of_sessions(
                        SubSeq(work_sessions, 1, Len(work_sessions) - 1))
             work_session == work_sessions[Len(work_sessions)]
             y == year(work_session.start)
             homeoffice_vec == IF y \in DOMAIN map THEN map[y] ELSE <<>>
             pushed == IF work_session.homeoffice
                       THEN Append(homeoffice_vec, date(work_session.start))
                       ELSE homeoffice_vec
         IN [k \in DOMAIN map \cup {y} |-> IF k = y THEN pushed ELSE map[k]]

\* homeoffice_map after the loop over the sessions: every year in which a
\* session starts gets an entry, and a date is pushed to its year's entry
\* for a homeoffice session unless the entry contains the date.
RECURSIVE homeoffice_map(_)
homeoffice_map(work_sessions) ==
    IF work_sessions = <<>> THEN [y \in {} |-> <<>>]
    ELSE LET map == homeoffice_map(SubSeq(work_sessions, 1, Len(work_sessions) - 1))
             work_session == work_sessions[Len(work_sessions)]
             work_date == date(work_session.start)
             y == year(work_session.start)
             homeoffice_vec == IF y \in DOMAIN map THEN map[y] ELSE <<>>
             pushed == IF ~contains(homeoffice_vec, work_date)
                          /\ work_session.homeoffice
                       THEN Append(homeoffice_vec, work_date)
                       ELSE homeoffice_vec
         IN [k \in DOMAIN map \cup {y} |-> IF k = y THEN pushed ELSE map[k]]

\* year_vec: the keys of the map, sorted.
RECURSIVE year_vec(_)
year_vec(years) ==
    IF years = {} THEN <<>>
    ELSE LET first == CHOOSE y \in years : \A z \in years : y <= z
         IN <<first>> \o year_vec(years \ {first})

\* The rows of homeoffice_table.
homeoffice_table(work_sessions) ==
    LET map == homeoffice_map(work_sessions)
        years == year_vec(DOMAIN map)
    IN [i \in 1..Len(years) |->
           [year |-> years[i], days |-> Len(map[years[i]])]]

\* The rows of the session table.
session_table(time_sheet, t) ==
    [i \in 1..Len(time_sheet.work_sessions) |->
        LET work_session == time_sheet.work_sessions[i] IN
        [id |-> i - 1,
         start |-> work_session.start,
         stop |-> stop_time_of(work_session, t),
         homeoffice |-> work_session.homeoffice,
         duration |-> duration(work_session, t),
         cost |-> IF is_some(time_sheet.hourly_rate)
                  THEN Some(session_cost(work_session, t,
                                         unwrap(time_sheet.hourly_rate)))
                  ELSE None]]

\* What analyze_work_sheet prints of the time sheet at the time t.
analyze_on(time_sheet, t) ==
    [project |-> time_sheet.project_name,
     hourly_rate |-> time_sheet.hourly_rate,
     table |-> session_table(time_sheet, t),
     homeoffice_table |-> homeoffice_table(time_sheet.work_sessions),
     work_time |-> work_time(time_sheet.work_sessions, t),
     total_work_time |-> format_02(work_time(time_sheet.work_sessions, t)),
     project_cost |->
        IF is_some(time_sheet.hourly_rate)
        THEN Some(project_cost(time_sheet.work_sessions, t,
                               unwrap(time_sheet.hourly_rate)))
        ELSE None,
     total_project_cost |->
        IF is_some(time_sheet.hourly_rate)
        THEN Some(format_02(project_cost(time_sheet.work_sessions, t,
                                         unwrap(time_sheet.hourly_rate))))
        ELSE None]

\* ------------------------------------------------- the commands, on the file
\* What one run of a command leaves behind: its result, the file, the time
\* sheet it loaded and the time sheet it handed to its last save (None when
\* it got to no load, or to no save).
Run(res, f, loaded, mem) ==
    [res |-> res, file |-> f, loaded |-> loaded, mem |-> mem]

\* initialize_project
initialize_project(name, hourly_rate, f, outcome) ==
    LET time_sheet == TimeSheet(name, hourly_rate)
        saved == save(time_sheet, f, outcome)
    IN Run(saved.res, saved.file, None, Some(time_sheet))

\* start_working_session
start_working_session(f, start_time, description, homeoffice, outcome) ==
    LET loaded == load(f) IN
    IF loaded.res # Ok THEN Run(loaded.res, f, None, None)
    ELSE LET started == start_on(unwrap(loaded.sheet), start_time,
                                 description, homeoffice) IN
         IF started.res # Ok THEN Run(started.res, f, loaded.sheet, None)
         ELSE LET saved == save(started.sheet, f, outcome)
              IN Run(saved.res, saved.file, loaded.sheet, Some(started.sheet))

\* stop_working_session: load and save are unwrapped, so their errors abort
\* the process.
stop_working_session(f, stop_time, description, homeoffice, outcome) ==
    LET loaded == load(f) IN
    IF loaded.res # Ok THEN Run(Panic, f, None, None)
    ELSE LET stopped == stop_on(unwrap(loaded.sheet), stop_time,
                                description, homeoffice) IN
         IF stopped.res # Ok THEN Run(stopped.res, f, loaded.sheet, None)
         ELSE LET saved == save(stopped.sheet, f, outcome)
              IN Run(IF saved.res # Ok THEN Panic ELSE Ok, saved.file,
                     loaded.sheet, Some(stopped.sheet))

\* switch_working_sessions handing its description on to the start.
switch_passing_description(f, stop_time, start_time, description, homeoffice, stop_outcome, start_outcome) ==
    LET first == stop_working_session(f, stop_time, description, homeoffice,
                                      stop_outcome) IN
    IF first.res # Ok THEN first
    ELSE LET second == start_working_session(first.file, start_time, description,
                                             homeoffice, start_outcome)
         IN Run(second.res, second.file, first.loaded, second.mem)

\* switch_working_sessions: stop_working_session(description, homeoffice)?
\* then start_working_session(None, homeoffice). Each half reads the clock
\* and loads and saves the file itself.
switch_working_sessions(f, stop_time, start_time, description, homeoffice, stop_outcome, start_outcome) ==
    LET first == stop_working_session(f, stop_time, description, homeoffice,
                                      stop_outcome) IN
    IF first.res # Ok THEN first
    ELSE LET second == start_working_session(first.file, start_time, None,
                                             homeoffice, start_outcome)
         IN Run(second.res, second.file, first.loaded, second.mem)

\* add_work_session_to_time_sheet taking a stop that does not parse as no
\* stop.
add_ignoring_malformed_stop(f, start, stop, description, homeoffice, outcome) ==
    LET start_time == datetime_from_str(start)
        stop_time == IF is_some(stop) THEN datetime_from_str(unwrap(stop)) ELSE None
    IN
    IF is_none(start_time) THEN Run(ChronoParse, f, None, None)
    ELSE LET work_session == WorkSession(unwrap(start_time), stop_time,
                                         desc_of(description), homeoffice)
             loaded == load(f)
         IN IF loaded.res # Ok THEN Run(loaded.res, f, None, None)
            ELSE LET time_sheet == add_on(unwrap(loaded.sheet), work_session)
                     saved == save(time_sheet, f, outcome)
                 IN Run(saved.res, saved.file, loaded.sheet, Some(time_sheet))

\* add_work_session_to_time_sheet: both times are parsed before the load.
add_work_session_to_time_sheet(f, start, stop, description, homeoffice, outcome) ==
    LET start_time == datetime_from_str(start)
        stop_time == IF is_some(stop) THEN datetime_from_str(unwrap(stop)) ELSE None
    IN
    IF is_none(start_time) THEN Run(ChronoParse, f, None, None)
    ELSE IF is_some(stop) /\ is_none(stop_time) THEN Run(ChronoParse, f, None, None)
    ELSE LET work_session == WorkSession(unwrap(start_time), stop_time,
                                         desc_of(description), homeoffice)
             loaded == load(f)
         IN IF loaded.res # Ok THEN Run(loaded.res, f, None, None)
            ELSE LET time_sheet == add_on(unwrap(loaded.sheet), work_session)
                     saved == save(time_sheet, f, outcome)
                 IN Run(saved.res, saved.file, loaded.sheet, Some(time_sheet))

\* add_subproject
add_subproject(f, name, description, outcome) ==
    LET loaded == load(f) IN
    IF loaded.res # Ok THEN Run(loaded.res, f, None, None)
    ELSE LET time_sheet == add_subproject_on(unwrap(loaded.sheet), name, description)
             saved == save(time_sheet, f, outcome)
         IN Run(saved.res, saved.file, loaded.sheet, Some(time_sheet))

\* analyze_work_sheet storing the sessions with the stops it printed.
analyze_saving_stops(f, t) ==
    LET loaded == load(f) IN
    IF loaded.res # Ok
    THEN [res |-> loaded.res, file |-> f, loaded |-> None, mem |-> None,
          report |-> None]
    ELSE LET time_sheet == unwrap(loaded.sheet)
             ws == time_sheet.work_sessions
             valued == [time_sheet EXCEPT !.work_sessions =
                          [i \in 1..Len(ws) |->
                              [ws[i] EXCEPT !.stop = Some(stop_time_of(ws[i], t))]]]
         IN [res |-> Ok, file |-> save(valued, f, "written").file,
             loaded |-> loaded.sheet, mem |-> Some(valued),
             report |-> Some(analyze_on(time_sheet, t))]

\* analyze_work_sheet: load, then print; the file is not written.
analyze_work_sheet(f, t) ==
    LET loaded == load(f) IN
    IF loaded.res # Ok
    THEN [res |-> loaded.res, file |-> f, loaded |-> None, mem |-> None,
          report |-> None]
    ELSE [res |-> Ok, file |-> f, loaded |-> loaded.sheet, mem |-> None,
          report |-> Some(analyze_on(unwrap(loaded.sheet), t))]

\* ------------------------------------------------------------ the state
VARIABLES
    file,   \* time_sheet.json in the working directory
    now,    \* the clock Local::now() reads
    last    \* the last command run: its arguments, the file it found, the time
            \* sheet it loaded, the one it saved, and its result

vars == <<file, now, last>>

OptDescriptions == {None} \cup {Some(d) : d \in Descriptions}
OptRates == {None} \cup {Some(r) : r \in Rates}
OptDateTexts == {None} \cup {Some(x) : x \in DateTexts}

\* The file system never fails a write.
Reliable == {"written"}

NoCommand ==
    [op |-> "none", res |-> Ok, pre |-> Absent, loaded |-> None, mem |-> None,
     description |-> None, homeoffice |-> FALSE, t |-> 0,
     name |-> "", rate |-> None, start |-> Malformed, stop |-> None,
     report |-> None]

\* The record of a command's run on the file f: the arguments are kept for a
\* command that succeeded.
Ran(op, f, run, args) ==
    [(IF run.res = Ok THEN args ELSE NoCommand) EXCEPT
        !.op = op, !.res = run.res, !.pre = f,
        !.loaded = run.loaded, !.mem = run.mem]

\* The description and homeoffice arguments the add command is given.
AddArguments == {<<None, FALSE>>} \cup {<<Some(d), TRUE>> : d \in Descriptions}

\* Files an earlier revision of the program left behind: its sessions had no
\* homeoffice field, its time sheet no subprojects field.
OldSession(stop) ==
    [start |-> JDateTime(0), stop |-> stop, description |-> "design"]
OldFiles ==
    { Written([project_name |-> "Acme", hourly_rate |-> JNumber(50),
               work_sessions |-> <<OldSession(JDateTime(0))>>]),
      Written([project_name |-> "Acme", hourly_rate |-> JNull,
               work_sessions |-> <<OldSession(JNull)>>,
               subprojects |-> <<>>]),
      Written([project_name |-> "Acme", hourly_rate |-> JNull,
               work_sessions |->
                  <<[start |-> JDateTime(0), stop |-> JDateTime(0),
                     description |-> "", homeoffice |-> TRUE]>>]) }

\* A file of the present layout: a year ago, one homeoffice session of two
\* hours, at the rate 50.
LastYearsFile ==
    Written([project_name |-> "Acme", hourly_rate |-> JNumber(50),
             work_sessions |->
                <<[start |-> JDateTime(-TicksPerYear),
                   stop |-> JDateTime(2 * MinutesPerHour * TicksPerMinute
                                      - TicksPerYear),
                   description |-> "design", homeoffice |-> TRUE]>>,
             subprojects |-> <<>>])

\* A file of the present layout, without a rate: a session a year ago
\* without the homeoffice flag, a homeoffice session two days ago, and two
\* homeoffice sessions yesterday.
HomeofficeFile ==
    Written([project_name |-> "Acme", hourly_rate |-> JNull,
             work_sessions |->
                <<[start |-> JDateTime(-TicksPerYear),
                   stop |-> JDateTime(TicksPerMinute - TicksPerYear),
                   description |-> "design", homeoffice |-> FALSE],
                  [start |-> JDateTime(-2 * TicksPerDay),
                   stop |-> JDateTime(TicksPerMinute - 2 * TicksPerDay),
                   description |-> "design", homeoffice |-> TRUE],
                  [start |-> JDateTime(-TicksPerDay),
                   stop |-> JDateTime(TicksPerMinute - TicksPerDay),
                   description |-> "", homeoffice |-> TRUE],
                  [start |-> JDateTime(TicksPerMinute - TicksPerDay),
                   stop |-> JDateTime(3 * TicksPerMinute - TicksPerDay),
                   description |-> "design", homeoffice |-> TRUE]>>,
             subprojects |-> <<>>])

Init ==
    /\ file \in {Absent, LastYearsFile, HomeofficeFile} \cup OldFiles
    /\ now = 0
    /\ last = NoCommand

\* timetracker init NAME [-r RATE]
InitCmd(outcomes) ==
    \E name \in ProjectNames, rate \in OptRates, o \in outcomes :
        LET run == initialize_project(name, rate, file, o) IN
        /\ now < MaxTime
        /\ file' = run.file
        /\ last' = Ran("init", file, run,
                       [NoCommand EXCEPT !.name = name, !.rate = rate])
        /\ now' = now + 1

\* timetracker start [DESCRIPTION] [--homeoffice]
Start(outcomes) ==
    \E d \in OptDescriptions, h \in BOOLEAN, o \in outcomes :
        LET run == start_working_session(file, now, d, h, o) IN
        /\ now < MaxTime
        /\ file' = run.file
        /\ last' = Ran("start", file, run,
                       [NoCommand EXCEPT !.description = d, !.homeoffice = h,
                                         !.t = now])
        /\ now' = now + 1

\* timetracker stop [DESCRIPTION] [--homeoffice]
Stop(outcomes) ==
    \E d \in OptDescriptions, h \in BOOLEAN, o \in outcomes :
        LET run == stop_working_session(file, now, d, h, o) IN
        /\ now < MaxTime
        /\ file' = run.file
        /\ last' = Ran("stop", file, run,
                       [NoCommand EXCEPT !.description = d, !.homeoffice = h,
                                         !.t = now])
        /\ now' = now + 1

\* timetracker switch [DESCRIPTION] [--homeoffice]: each half reads the
\* clock, the second after the first.
Switch(outcomes) ==
    \E d \in OptDescriptions, h \in BOOLEAN, o1 \in outcomes, o2 \in outcomes :
        LET run == switch_working_sessions(file, now, now + 1, d, h, o1, o2) IN
        /\ now < MaxTime
        /\ file' = run.file
        /\ last' = Ran("switch", file, run,
                       [NoCommand EXCEPT !.description = d, !.homeoffice = h,
                                         !.t = now])
        /\ now' = now + 2

\* timetracker add -b START [-e STOP] [DESCRIPTION] [--homeoffice]
Add(outcomes) ==
    \E start \in DateTexts, stop \in OptDateTexts, a \in AddArguments,
       o \in outcomes :
        LET run == add_work_session_to_time_sheet(file, start, stop, a[1], a[2], o) IN
        /\ now < MaxTime
        /\ file' = run.file
        /\ last' = Ran("add", file, run,
                       [NoCommand EXCEPT !.description = a[1], !.homeoffice = a[2],
                                         !.start = start, !.stop = stop])
        /\ now' = now + 1

\* timetracker subprojects add NAME DESCRIPTION
AddSubproject(outcomes) ==
    \E name \in SubprojectNames, d \in Descriptions, o \in outcomes :
        LET run == add_subproject(file, name, d, o) IN
        /\ now < MaxTime
        /\ file' = run.file
        /\ last' = Ran("subprojects add", file, run,
                       [NoCommand EXCEPT !.name = name, !.description = Some(d)])
        /\ now' = now + 1

\* timetracker analyze
Analyze ==
    LET run == analyze_work_sheet(file, now) IN
    /\ now < MaxTime
    /\ file' = run.file
    /\ last' = [Ran("analyze", file, run, [NoCommand EXCEPT !.t = now])
                   EXCEPT !.report = run.report]
    /\ now' = now + 1

\* One command at a time, on a file system that works.
Next ==
    \/ InitCmd(Reliable)
    \/ Start(Reliable)
    \/ Stop(Reliable)
    \/ Switch(Reliable)
    \/ Add(Reliable)
    \/ AddSubproject(Reliable)
    \/ Analyze

Spec == Init /\ [][Next]_vars

\* The comparison of two subprojects, as tests::test_subproject_cmp makes
\* it: any two ids, names and descriptions.
ComparedSubprojects ==
    {SubProject(id, name, description) :
        id \in 0..MaxId, name \in {"web", "app"},
        description \in {"design", "build"}}

CmpInit ==
    /\ file = Absent
    /\ now = 0
    /\ last \in {[op |-> "none", subproject_1 |-> s1, subproject_2 |-> s2,
                  lt |-> FALSE, gt |-> FALSE, eq |-> FALSE] :
                     s1 \in ComparedSubprojects, s2 \in ComparedSubprojects}

Compare ==
    /\ last.op = "none"
    /\ last' = [last EXCEPT
                   !.op = "cmp",
                   !.lt = SubProject_lt(last.subproject_1, last.subproject_2),
                   !.gt = SubProject_gt(last.subproject_1, last.subproject_2),
                   !.eq = SubProject_eq(last.subproject_1, last.subproject_2)]
    /\ UNCHANGED <<file, now>>

CmpSpec == CmpInit /\ [][Compare]_vars

\* One command at a time, on a file system that may fail any write.
FaultNext ==
    \/ InitCmd(WriteOutcomes)
    \/ Start(WriteOutcomes)
    \/ Stop(WriteOutcomes)
    \/ Switch(WriteOutcomes)
    \/ Add(WriteOutcomes)
    \/ AddSubproject(WriteOutcomes)
    \/ Analyze

FaultSpec == Init /\ [][FaultNext]_vars

\* ------------------------------------------------ two invocations at once
\* Two processes run one command each on the same time_sheet.json. A command
\* loads the file (TimeSheet::load), changes the time sheet in memory, and
\* saves it in two steps of the file system: File::create empties the file,
\* and the text is written when the BufWriter is flushed. Here `last` holds
\* the two invocations: their command, how far they got, and their result.
RaceCommands ==
    {[op |-> "start", description |-> d, homeoffice |-> h] :
        d \in OptDescriptions, h \in BOOLEAN}
    \cup {[op |-> "stop", description |-> d, homeoffice |-> h] :
        d \in OptDescriptions, h \in BOOLEAN}
    \cup {[op |-> "subprojects add", description |-> Some(d), homeoffice |-> FALSE] :
        d \in Descriptions}

Invocation(cmd) ==
    [cmd |-> cmd, pc |-> "ready", res |-> Ok, t |-> 0, loaded |-> None,
     mem |-> None, before_saves |-> FALSE, overlapped |-> FALSE]

RaceInit ==
    /\ file \in {LastYearsFile, HomeofficeFile} \cup OldFiles
    /\ now = 0
    /\ last \in {[op |-> "race", inv |-> <<Invocation(c1), Invocation(c2)>>,
                  saved |-> <<>>] :
                     c1 \in RaceCommands, c2 \in RaceCommands}

Other(p) == 3 - p

\* The change a command makes to the time sheet it loaded, at the time t.
change_on(cmd, ts, t) ==
    CASE cmd.op = "start" -> start_on(ts, t, cmd.description, cmd.homeoffice)
      [] cmd.op = "stop" -> stop_on(ts, t, cmd.description, cmd.homeoffice)
      [] OTHER -> [res |-> Ok,
                   sheet |-> add_subproject_on(ts, "web", unwrap(cmd.description))]

\* The command reads the clock, loads the file and changes the time sheet in
\* memory; an error ends it (stop unwraps the load).
RaceLoad(p) ==
    LET me == last.inv[p]
        loaded == load(file)
        changed == change_on(me.cmd, unwrap(loaded.sheet), now)
        after ==
            IF loaded.res # Ok
            THEN [me EXCEPT !.pc = "done",
                            !.res = IF me.cmd.op = "stop" THEN Panic ELSE loaded.res]
            ELSE IF changed.res # Ok
            THEN [me EXCEPT !.pc = "done", !.res = changed.res,
                            !.loaded = loaded.sheet]
            ELSE [me EXCEPT !.pc = "loaded", !.t = now, !.loaded = loaded.sheet,
                            !.mem = Some(changed.sheet),
                            !.before_saves =
                                last.inv[Other(p)].pc \in {"ready", "loaded"}]
    IN /\ me.pc = "ready"
       /\ last' = [last EXCEPT !.inv[p] = after]
       /\ now' = now + 1
       /\ UNCHANGED file

\* TimeSheet::save, File::create: the file is emptied.
RaceCreate(p) ==
    /\ last.inv[p].pc = "loaded"
    /\ file' = Truncated
    /\ last' = [last EXCEPT
                   !.inv[p].pc = "created",
                   !.inv[p].overlapped = (last.inv[Other(p)].pc = "created"),
                   !.inv[Other(p)].overlapped =
                       (@ \/ last.inv[Other(p)].pc = "created")]
    /\ UNCHANGED now

\* TimeSheet::save, the write at the start of the file the process created:
\* onto an empty file it leaves its text; onto the text the other process
\* wrote meanwhile it leaves its text when that is as long as the other, and
\* its text followed by the rest of the other when it is shorter.
RaceWrite(p) ==
    LET text == Written(to_json(unwrap(last.inv[p].mem))) IN
    /\ last.inv[p].pc = "created"
    /\ file' \in IF file = Truncated \/ file = text THEN {text}
                 ELSE {text, Garbled}
    /\ last' = [last EXCEPT !.inv[p].pc = "done", !.saved = Append(@, p)]
    /\ UNCHANGED now

RaceNext == \E p \in 1..2 : RaceLoad(p) \/ RaceCreate(p) \/ RaceWrite(p)

RaceSpec == RaceInit /\ [][RaceNext]_vars

\* ------------------------------------------------- wrapping a description
\* A description is the sequence of the words desc_string.split(' ') yields,
\* each word the number of its user-perceived characters: the empty text is
\* the one empty word, two spaces in a row enclose an empty word. The words
\* hold no line break, and no character that joins with a space before it.
WordLists ==
    UNION {[1..k -> 0..MaxWordLength] : k \in 1..MaxWords}

RECURSIVE sum(_)
sum(counts) == IF counts = <<>> THEN 0 ELSE Head(counts) + sum(Tail(counts))

\* line_vec.join(" ").graphemes(true).count()
join_count(line_vec) ==
    IF line_vec = <<>> THEN 0 ELSE sum(line_vec) + Len(line_vec) - 1

\* The loop of split_description_string from the word i on: lines_vec are
\* the lines closed so far, line_vec the words of the line being filled.
RECURSIVE split_from(_, _, _, _, _)
split_from(words, i, lines_vec, line_vec, max_line_length) ==
    IF i > Len(words) THEN Append(lines_vec, line_vec)
    ELSE IF join_count(line_vec) + words[i] > max_line_length
    THEN split_from(words, i + 1, Append(lines_vec, line_vec), <<words[i]>>,
                    max_line_length)
    ELSE split_from(words, i + 1, lines_vec, Append(line_vec, words[i]),
                    max_line_length)

\* split_description_string: the lines of the result, each the words joined
\* into it.
split_description_string(words, max_line_length) ==
    split_from(words, 1, <<>>, <<>>, max_line_length)

WrapInit ==
    /\ file = Absent
    /\ now = 0
    /\ last \in {[op |-> "none", words |-> w, max_line_length |-> n,
                  lines |-> <<>>] :
                     w \in WordLists, n \in 0..MaxLineLength}

Wrap ==
    /\ last.op = "none"
    /\ last' = [last EXCEPT
                   !.op = "split",
                   !.lines = split_description_string(last.words,
                                                      last.max_line_length)]
    /\ UNCHANGED <<file, now>>

WrapSpec == WrapInit /\ [][Wrap]_vars

\* ------------------------------------------------------------ normal use
\* init, start, stop and switch, one at a time, on a file system that works
\* and under a clock that never goes back: a command may read the clock as
\* the command before it did. The commands are given either no description
\* and no flag, or a description and the homeoffice flag.
Advance == 0..1

NormalInit ==
    /\ file = Absent
    /\ now = 0
    /\ last = NoCommand

\* The number of sessions stored in f.
Stored(f) == IF f.state = "json" THEN Len(f.doc.work_sessions) ELSE 0

NormalInitCmd ==
    \E name \in ProjectNames, rate \in OptRates, dt \in Advance :
        LET run == initialize_project(name, rate, file, "written") IN
        /\ now + dt <= MaxTime
        /\ file' = run.file
        /\ last' = Ran("init", file, run,
                       [NoCommand EXCEPT !.name = name, !.rate = rate])
        /\ now' = now + dt

NormalStart ==
    \E a \in AddArguments, dt \in Advance :
        LET run == start_working_session(file, now, a[1], a[2], "written") IN
        /\ now + dt <= MaxTime
        /\ Stored(file) < MaxSessions
        /\ file' = run.file
        /\ last' = Ran("start", file, run,
                       [NoCommand EXCEPT !.description = a[1], !.homeoffice = a[2],
                                         !.t = now])
        /\ now' = now + dt

NormalStop ==
    \E a \in AddArguments, dt \in Advance :
        LET run == stop_working_session(file, now, a[1], a[2], "written") IN
        /\ now + dt <= MaxTime
        /\ file' = run.file
        /\ last' = Ran("stop", file, run,
                       [NoCommand EXCEPT !.description = a[1], !.homeoffice = a[2],
                                         !.t = now])
        /\ now' = now + dt

\* Each half of a switch reads the clock, the second not before the first.
NormalSwitch ==
    \E a \in AddArguments, dt1 \in Advance, dt2 \in Advance :
        LET run == switch_working_sessions(file, now, now + dt1, a[1], a[2],
                                           "written", "written") IN
        /\ now + dt1 + dt2 <= MaxTime
        /\ Stored(file) < MaxSessions
        /\ file' = run.file
        /\ last' = Ran("switch", file, run,
                       [NoCommand EXCEPT !.description = a[1], !.homeoffice = a[2],
                                         !.t = now])
        /\ now' = now + dt1 + dt2

NormalNext ==
    \/ NormalInitCmd
    \/ NormalStart
    \/ NormalStop
    \/ NormalSwitch

NormalSpec == NormalInit /\ [][NormalNext]_vars

\* ------------------------------------------------------------ the claims
\* The time sheet a load of the file f yields.
Ledger(f) == unwrap(load(f).sheet)
Holds(f) == f.state = "json"

\* Running: the last session stored in f is open. Idle: f stores no session,
\* or its last session is closed.
Running(f) ==
    /\ Holds(f)
    /\ f.doc.work_sessions # <<>>
    /\ f.doc.work_sessions[Len(f.doc.work_sessions)].stop = JNull
Idle(f) == Holds(f) /\ ~Running(f)

\* Everything but the work sessions is the same in the two time sheets.
SameFrame(a, b) ==
    /\ a.project_name = b.project_name
    /\ a.hourly_rate = b.hourly_rate
    /\ a.subprojects = b.subprojects

C2_StopWhileIdle ==
    (last.op = "stop" /\ Idle(last.pre)) =>
        (last.res = NoRunningSession /\ file = last.pre)

C2_Witness ==
    /\ last.op = "stop"
    /\ Idle(last.pre)
    /\ last.pre.doc.work_sessions # <<>>
    /\ last.res = NoRunningSession

\* The session a successful stop(description, homeoffice) at the time t makes
\* of the open session s.
Closed(s, t, description, homeoffice) ==
    [start |-> s.start,
     stop |-> Some(t),
     description |-> IF is_some(description) THEN unwrap(description)
                     ELSE s.description,
     homeoffice |-> s.homeoffice \/ homeoffice]

\* The session a successful start(description, homeoffice) at the time t adds.
Opened(t, description, homeoffice) ==
    [start |-> t,
     stop |-> None,
     description |-> IF is_some(description) THEN unwrap(description) ELSE "",
     homeoffice |-> homeoffice]

Front(v) == SubSeq(v, 1, Len(v) - 1)

\* C3: switch(d, h) on a time sheet whose last session is open ends as
\* stop(d, h) followed by start(None, h) does: the old session closed with d
\* and h applied, and one new open session with an empty description and the
\* flag h appended; where stop would fail, switch fails and the number of
\* sessions stays.
C3_SwitchIsStopThenStart ==
    /\ (last.op = "switch" /\ Running(last.pre)) =>
           /\ last.res = Ok
           /\ Holds(file)
           /\ SameFrame(Ledger(file), Ledger(last.pre))
           /\ LET before == Ledger(last.pre).work_sessions
                  old == before[Len(before)]
              IN Ledger(file).work_sessions =
                     Front(before)
                     \o <<Closed(old, last.t, last.description, last.homeoffice),
                          Opened(last.t + 1, None, last.homeoffice)>>
    /\ (last.op = "switch" /\ Idle(last.pre)) =>
           /\ last.res = NoRunningSession
           /\ Len(Ledger(file).work_sessions) = Len(Ledger(last.pre).work_sessions)

C3_Witness ==
    /\ last.op = "switch"
    /\ Running(last.pre)
    /\ last.res = Ok
    /\ is_some(last.description)
    /\ last.homeoffice
    /\ Len(Ledger(file).work_sessions) = 2

\* C4: in every stored time sheet at most one session is open, and an open
\* session is the last of the list.
C4_TailIsCurrent ==
    Holds(file) =>
        \A i \in 1..Len(file.doc.work_sessions) :
            file.doc.work_sessions[i].stop = JNull =>
                i = Len(file.doc.work_sessions)

\* C5: a successful stop changes the last session only: its stop becomes the
\* time of the stop, its start stays, its description is replaced exactly
\* when one is given, its homeoffice flag becomes (old flag or requested
\* flag); the earlier sessions and the number of sessions stay.
C5_StopEffect ==
    (last.op = "stop" /\ last.res = Ok) =>
        /\ Running(last.pre)
        /\ Holds(file)
        /\ SameFrame(Ledger(file), Ledger(last.pre))
        /\ LET before == Ledger(last.pre).work_sessions
               after == Ledger(file).work_sessions
               n == Len(before)
           IN /\ Len(after) = n
              /\ \A i \in 1..(n - 1) : after[i] = before[i]
              /\ after[n].start = before[n].start
              /\ after[n].stop = Some(last.t)
              /\ after[n].description =
                     (IF is_some(last.description) THEN unwrap(last.description)
                      ELSE before[n].description)
              /\ after[n].homeoffice = (before[n].homeoffice \/ last.homeoffice)
              /\ (before[n].homeoffice => after[n].homeoffice)

\* A stop(None, false) of a described homeoffice session has run.
C5_Witness ==
    /\ last.op = "stop"
    /\ last.res = Ok
    /\ is_none(last.description)
    /\ ~last.homeoffice
    /\ LET before == Ledger(last.pre).work_sessions
       IN /\ before[Len(before)].description = "design"
          /\ before[Len(before)].homeoffice

\* C6: a successful start finds the time sheet idle and appends exactly one
\* session: start = the time of the start, no stop, the given description
\* (empty when none is given) and the given homeoffice flag; the sessions
\* stored before keep their values and order.
C6_StartEffect ==
    (last.op = "start" /\ last.res = Ok) =>
        /\ Idle(last.pre)
        /\ Running(file)
        /\ SameFrame(Ledger(file), Ledger(last.pre))
        /\ Ledger(file).work_sessions =
               Append(Ledger(last.pre).work_sessions,
                      Opened(last.t, last.description, last.homeoffice))

C6_Witness ==
    /\ last.op = "start"
    /\ last.res = Ok
    /\ is_some(last.description)
    /\ last.homeoffice
    /\ Len(Ledger(last.pre).work_sessions) >= 1

\* How often x occurs in the sequence v.
Count(v, x) == Cardinality({i \in 1..Len(v) : v[i] = x})

Sorted(v) == \A i \in 1..Len(v), j \in 1..Len(v) : i < j => v[i].start <= v[j].start

\* The session add constructs from its arguments.
Added ==
    [start |-> last.start.minute * TicksPerMinute,
     stop |-> IF is_some(last.stop)
              THEN Some(unwrap(last.stop).minute * TicksPerMinute) ELSE None,
     description |-> IF is_some(last.description) THEN unwrap(last.description)
                     ELSE "",
     homeoffice |-> last.homeoffice]

\* C7: a successful add stores the sessions stored before and the one new
\* session, each as often as before (the new one once more), in the order of
\* non-decreasing start, whatever the order was before.
C7_AddKeepsAndSorts ==
    (last.op = "add" /\ last.res = Ok) =>
        /\ Holds(last.pre)
        /\ Holds(file)
        /\ SameFrame(Ledger(file), Ledger(last.pre))
        /\ LET before == Ledger(last.pre).work_sessions
               after == Ledger(file).work_sessions
           IN /\ Len(after) = Len(before) + 1
              /\ \A i \in 1..Len(after) :
                     Count(after, after[i]) =
                         Count(before, after[i])
                         + (IF after[i] = Added THEN 1 ELSE 0)
              /\ Count(after, Added) = Count(before, Added) + 1
              /\ Sorted(after)

\* An add has run on a time sheet whose sessions were out of order.
C7_Witness ==
    /\ last.op = "add"
    /\ last.res = Ok
    /\ ~Sorted(Ledger(last.pre).work_sessions)
    /\ Len(Ledger(file).work_sessions) >= 3

\* The file yields the time sheet ts.
Yields(f, ts) == load(f).res = Ok /\ Ledger(f) = ts

\* C8: the time sheet a command saved is the time sheet the next load yields,
\* field for field, the rate and the homeoffice flag of every session
\* included; and saving what was loaded from a file loads again as the same
\* time sheet.
C8_RoundTrip ==
    /\ (last.res = Ok /\ is_some(last.mem)) => Yields(file, unwrap(last.mem))
    /\ Holds(file) => Yields(Written(to_json(Ledger(file))), Ledger(file))

\* The round trip of the time sheets whose rate is absent or a finite number.
RoundTripOfFiniteRate ==
    /\ (/\ last.res = Ok
        /\ is_some(last.mem)
        /\ is_some(unwrap(last.mem).hourly_rate) =>
               unwrap(unwrap(last.mem).hourly_rate).class = "normal")
       => Yields(file, unwrap(last.mem))
    /\ Holds(file) => Yields(Written(to_json(Ledger(file))), Ledger(file))

\* The commands that load the file before anything else.
Loading == {"start", "stop", "switch", "subprojects add"}

\* C9: a stored time sheet without the subprojects field, or with sessions
\* without the homeoffice field, loads: subprojects is then the empty list,
\* homeoffice false, and every field that is stored has its stored value.
C9_SchemaTolerance ==
    (last.op \in Loading /\ Holds(last.pre)) =>
        /\ is_some(last.loaded)
        /\ LET doc == last.pre.doc
               ts == unwrap(last.loaded)
           IN /\ ts.project_name = doc.project_name
              /\ is_none(ts.hourly_rate) = (doc.hourly_rate = JNull)
              /\ is_some(ts.hourly_rate) =>
                     doc.hourly_rate = JNumber(unwrap(ts.hourly_rate).val)
              /\ ts.subprojects =
                     (IF "subprojects" \in DOMAIN doc THEN doc.subprojects ELSE <<>>)
              /\ Len(ts.work_sessions) = Len(doc.work_sessions)
              /\ \A i \in 1..Len(doc.work_sessions) :
                     LET j == doc.work_sessions[i]
                         w == ts.work_sessions[i]
                     IN /\ j.start = JDateTime(w.start)
                        /\ is_none(w.stop) = (j.stop = JNull)
                        /\ is_some(w.stop) => j.stop = JDateTime(unwrap(w.stop))
                        /\ w.description = j.description
                        /\ w.homeoffice =
                               (IF "homeoffice" \in DOMAIN j THEN j.homeoffice
                                ELSE FALSE)

\* A file with neither field has been loaded.
C9_Witness ==
    /\ last.op \in Loading
    /\ Holds(last.pre)
    /\ is_some(last.loaded)
    /\ "subprojects" \notin DOMAIN last.pre.doc
    /\ last.pre.doc.work_sessions # <<>>
    /\ "homeoffice" \notin DOMAIN last.pre.doc.work_sessions[1]

\* C10: a command that reports a failure leaves the file such that the next
\* load yields what a load before the command yielded.
C10_FailureAtomicity ==
    (last.op # "none" /\ last.res # Ok) => load(file) = load(last.pre)

\* The part of C10 about a switch that fails and leaves a file that loads.
SwitchFailureAtomicity ==
    (last.op = "switch" /\ last.res # Ok /\ Holds(file)) =>
        load(file) = load(last.pre)

\* The commands that need a stored time sheet.
NeedingSheet == {"start", "stop", "switch", "add", "subprojects add", "analyze"}

\* C11: start, stop, switch, add, subprojects add and analyze, run while the
\* file is absent or does not deserialize, return an error value of the
\* error type to their caller (the process is not aborted), and leave the
\* file as it was: absent stays absent, nothing is created or written.
C11_TypedStorageErrors ==
    (last.op \in NeedingSheet /\ ~Holds(last.pre)) =>
        /\ last.res \in {IOError, SerdeJSON, ChronoParse}
        /\ file = last.pre

\* The part of C11 that the commands other than stop and switch satisfy.
StorageErrorsOfTheOthers ==
    (last.op \in NeedingSheet \ {"stop", "switch"} /\ ~Holds(last.pre)) =>
        /\ last.res \in {IOError, SerdeJSON, ChronoParse}
        /\ last.pre = Absent => last.res \in {IOError, ChronoParse}
        /\ last.pre = Truncated => last.res \in {SerdeJSON, ChronoParse}
        /\ file = last.pre

\* v is the beginning of w.
Prefix(v, w) == Len(v) <= Len(w) /\ SubSeq(w, 1, Len(v)) = v

\* C12: subprojects add appends one subproject whose id is the number of
\* subprojects stored before, with the given name and description; so the
\* stored subproject at position i (counted from 0) has the id i, the ids
\* are pairwise distinct and increasing, and every command after init keeps
\* the subprojects stored before it as they were.
C12_SubprojectIds ==
    /\ Holds(file) =>
           LET subprojects == Ledger(file).subprojects IN
           /\ \A i \in 1..Len(subprojects) : subprojects[i].id = i - 1
           /\ \A i, j \in 1..Len(subprojects) :
                  i < j => subprojects[i].id < subprojects[j].id
    /\ (last.op = "subprojects add" /\ last.res = Ok) =>
           /\ Holds(last.pre)
           /\ Holds(file)
           /\ Ledger(file).subprojects =
                  Append(Ledger(last.pre).subprojects,
                         [id |-> Len(Ledger(last.pre).subprojects),
                          name |-> last.name,
                          description |-> unwrap(last.description)])
    /\ (last.op \notin {"none", "init"} /\ Holds(last.pre)) =>
           /\ Holds(file)
           /\ Prefix(Ledger(last.pre).subprojects, Ledger(file).subprojects)

\* A second subproject has been added, and a later command has run on the
\* two.
C12_Witness ==
    /\ last.op \in {"start", "add", "stop", "switch"}
    /\ last.res = Ok
    /\ Len(Ledger(last.pre).subprojects) = 2
    /\ Len(Ledger(file).subprojects) = 2

\* C13: two subprojects compare as their ids do, whatever their names and
\* descriptions: s1 < s2 exactly when id1 < id2, s1 > s2 exactly when
\* id1 > id2, and s1 == s2 exactly when id1 = id2.
C13_ComparisonById ==
    last.op = "cmp" =>
        /\ last.lt = (last.subproject_1.id < last.subproject_2.id)
        /\ last.gt = (last.subproject_1.id > last.subproject_2.id)
        /\ last.eq = (last.subproject_1.id = last.subproject_2.id)

\* The part of C13 about < and >.
OrderingById ==
    last.op = "cmp" =>
        /\ last.lt = (last.subproject_1.id < last.subproject_2.id)
        /\ last.gt = (last.subproject_1.id > last.subproject_2.id)

\* C14: init(name, rate) stores a time sheet whose project_name is the name
\* given, whose hourly_rate is the rate given (none when none is given), and
\* which has no session and no subproject: the time sheet is Idle.
C14_InitEffect ==
    (last.op = "init" /\ last.res = Ok) =>
        /\ Holds(file)
        /\ Ledger(file).project_name = last.name
        /\ Ledger(file).hourly_rate = last.rate
        /\ Ledger(file).work_sessions = <<>>
        /\ Ledger(file).subprojects = <<>>
        /\ Idle(file)

\* C14 for the rates that are absent or finite numbers.
InitEffectOfFiniteRate ==
    (/\ last.op = "init"
     /\ last.res = Ok
     /\ is_some(last.rate) => unwrap(last.rate).class = "normal") =>
        /\ Holds(file)
        /\ Ledger(file) = TimeSheet(last.name, last.rate)
        /\ Idle(file)

\* The times at which an analysis may be run.
EvaluationTimes == 0..(MaxTime + TicksPerMinute)

\* The open sessions of the stored time sheet.
OpenSessions(f) ==
    {Ledger(f).work_sessions[i] : i \in {j \in 1..Len(Ledger(f).work_sessions) :
                                           is_none(Ledger(f).work_sessions[j].stop)}}

\* analyze values every open session up to the time of the analysis.
ValuedUpToNow ==
    (last.op = "analyze" /\ last.res = Ok) =>
        LET work_sessions == unwrap(last.loaded).work_sessions
            table == unwrap(last.report).table
        IN /\ Len(table) = Len(work_sessions)
           /\ \A i \in 1..Len(table) :
                  /\ is_none(work_sessions[i].stop) => table[i].stop = last.t
                  /\ is_some(work_sessions[i].stop) =>
                         table[i].stop = unwrap(work_sessions[i].stop)
                  /\ table[i].duration =
                         num_minutes(table[i].stop - work_sessions[i].start)

\* C15 as stated: the analysis values an open session up to the evaluation
\* time, and of two evaluation times t1 < t2, both at or after the session's
\* start, the later gives the strictly greater duration in whole minutes.
C15_StrictlyIncreasing ==
    /\ ValuedUpToNow
    /\ Holds(file) =>
           \A s \in OpenSessions(file) :
               \A t1, t2 \in EvaluationTimes :
                   (s.start <= t1 /\ t1 < t2) => duration(s, t1) < duration(s, t2)

\* C15 amended: the analysis values an open session up to the evaluation
\* time, and of two evaluation times t1 < t2, both at or after the session's
\* start, the later never gives the smaller duration in whole minutes, and
\* gives the strictly greater one when it is a whole minute or more later.
C15_DurationMonotone ==
    /\ ValuedUpToNow
    /\ Holds(file) =>
           \A s \in OpenSessions(file) :
               \A t1, t2 \in EvaluationTimes :
                   (s.start <= t1 /\ t1 < t2) =>
                       /\ duration(s, t1) <= duration(s, t2)
                       /\ t2 - t1 >= TicksPerMinute =>
                              duration(s, t1) < duration(s, t2)

\* An analysis has valued an open session at a whole minute or more.
C15_Witness ==
    /\ last.op = "analyze"
    /\ last.res = Ok
    /\ \E i \in 1..Len(unwrap(last.loaded).work_sessions) :
           /\ is_none(unwrap(last.loaded).work_sessions[i].stop)
           /\ unwrap(last.report).table[i].duration >= 1

\* The calendar dates of the year y on which a homeoffice session of the
\* sequence starts.
HomeofficeDates(work_sessions, y) ==
    {date(work_sessions[i].start) :
        i \in {j \in 1..Len(work_sessions) :
                 /\ work_sessions[j].homeoffice
                 /\ year(work_sessions[j].start) = y}}

\* C16: the number analyze reports for a year is the number of distinct
\* calendar dates of that year on which a homeoffice session starts: several
\* homeoffice sessions on one date count once, sessions without the flag
\* count nothing; every year in which a session starts is listed once, and
\* the years are listed in ascending order.
C16_HomeofficeDays ==
    (last.op = "analyze" /\ last.res = Ok) =>
        LET work_sessions == unwrap(last.loaded).work_sessions
            table == unwrap(last.report).homeoffice_table
        IN /\ \A i \in 1..Len(table) :
                  table[i].days =
                      Cardinality(HomeofficeDates(work_sessions, table[i].year))
           /\ {table[i].year : i \in 1..Len(table)} =
                  {year(work_sessions[i].start) : i \in 1..Len(work_sessions)}
           /\ \A i, j \in 1..Len(table) : i < j => table[i].year < table[j].year

\* An analysis of sessions of two years, the first without a homeoffice
\* session, the second with three homeoffice dates, two of the homeoffice
\* sessions starting on the same date.
C16_Witness ==
    /\ last.op = "analyze"
    /\ last.res = Ok
    /\ Len(unwrap(last.report).homeoffice_table) = 2
    /\ unwrap(last.report).homeoffice_table[1].days = 0
    /\ unwrap(last.report).homeoffice_table[2].days = 3
    /\ LET work_sessions == unwrap(last.loaded).work_sessions
       IN \E i, j \in 1..Len(work_sessions) :
              /\ i < j
              /\ work_sessions[i].homeoffice
              /\ work_sessions[j].homeoffice
              /\ date(work_sessions[i].start) = date(work_sessions[j].start)

\* The sum of f[i] over i in 1..n.
RECURSIVE SumTo(_, _)
SumTo(f, n) == IF n = 0 THEN 0 ELSE SumTo(f, n - 1) + f[n]

\* C17: analyze reports as total work time the sum of the durations of all
\* sessions, and, exactly when the time sheet has an hourly rate, as total
\* cost the sum of duration x rate over all sessions; a time sheet with one
\* session of 120 whole minutes and the rate 50 has the totals 2.00 hours
\* and 100.00. (Durations are in units of 1/MinutesPerHour hour, the printed
\* totals in hundredths.)
C17_Totals ==
    (last.op = "analyze" /\ last.res = Ok) =>
        LET time_sheet == unwrap(last.loaded)
            report == unwrap(last.report)
            n == Len(report.table)
        IN /\ n = Len(time_sheet.work_sessions)
           /\ report.work_time = SumTo([i \in 1..n |-> report.table[i].duration], n)
           /\ report.total_work_time = format_02(report.work_time)
           /\ is_some(report.project_cost) = is_some(time_sheet.hourly_rate)
           /\ is_some(report.total_project_cost) = is_some(time_sheet.hourly_rate)
           /\ \A i \in 1..n :
                  is_some(report.table[i].cost) = is_some(time_sheet.hourly_rate)
           /\ is_some(time_sheet.hourly_rate) =>
                  /\ \A i \in 1..n :
                         unwrap(report.table[i].cost) =
                             report.table[i].duration
                             * unwrap(time_sheet.hourly_rate).val
                  /\ unwrap(report.project_cost) =
                         SumTo([i \in 1..n |-> unwrap(report.table[i].cost)], n)
                  /\ unwrap(report.total_project_cost) =
                         format_02(unwrap(report.project_cost))
           /\ (/\ n = 1
               /\ report.table[1].duration = 2 * MinutesPerHour
               /\ time_sheet.hourly_rate = Some(Finite(50))) =>
                  /\ report.total_work_time = 200
                  /\ report.total_project_cost = Some(10000)

\* An analysis of one session of 120 minutes at the rate 50.
AnalysisOfTheExample ==
    /\ last.op = "analyze"
    /\ last.res = Ok
    /\ unwrap(last.loaded).hourly_rate = Some(Finite(50))
    /\ Len(unwrap(last.report).table) = 1
    /\ unwrap(last.report).table[1].duration = 2 * MinutesPerHour
    /\ unwrap(last.report).total_work_time = 200

\* An analysis with a rate of several sessions, one of them open and of a
\* whole minute or more.
C17_Witness ==
    /\ last.op = "analyze"
    /\ last.res = Ok
    /\ is_some(unwrap(last.loaded).hourly_rate)
    /\ Len(unwrap(last.report).table) >= 2
    /\ unwrap(last.report).work_time > 2 * MinutesPerHour
    /\ \E i \in 1..Len(unwrap(last.report).table) :
           /\ is_none(unwrap(last.loaded).work_sessions[i].stop)
           /\ unwrap(last.report).table[i].duration >= 1

\* The start, or the stop given, does not follow the format.
MalformedTimes(start, stop) ==
    ~start.wellformed \/ (is_some(stop) /\ ~unwrap(stop).wellformed)

\* C18: add with a start, or a given stop, that does not parse fails with
\* the time-parse error whatever the file holds, and leaves the file exactly
\* as it was: no session added, no re-sort.
C18_AddParseError ==
    /\ \A start \in DateTexts, stop \in OptDateTexts, a \in AddArguments :
           MalformedTimes(start, stop) =>
               LET run == add_work_session_to_time_sheet(
                              file, start, stop, a[1], a[2], "written")
               IN run.res = ChronoParse /\ run.file = file
    /\ (last.op = "add" /\ last.res = ChronoParse) => file = last.pre
    /\ (last.op = "add" /\ last.res = Ok) => ~MalformedTimes(last.start, last.stop)

\* An add has failed with the time-parse error on a stored time sheet whose
\* sessions are out of order.
C18_Witness ==
    /\ last.op = "add"
    /\ last.res = ChronoParse
    /\ Holds(file)
    /\ ~Sorted(Ledger(file).work_sessions)

\* C19: every stored session that has a stop has it at or after its start,
\* in every time sheet reached by start, stop, switch and add.
C19_StopNotBeforeStart ==
    Holds(file) =>
        \A i \in 1..Len(Ledger(file).work_sessions) :
            LET s == Ledger(file).work_sessions[i]
            IN is_some(s.stop) => unwrap(s.stop) >= s.start

\* The part of C19 that holds: a session closed by stop or switch that was
\* opened by start or switch, or stored before, not after the closing time.
StopAtOrAfterStartedSession ==
    (last.op \in {"stop", "switch"} /\ last.res = Ok) =>
        LET before == Ledger(last.pre).work_sessions
            after == Ledger(file).work_sessions
            n == Len(before)
        IN before[n].start <= last.t => unwrap(after[n].stop) >= after[n].start

\* C20: analyze leaves the file as it was, whatever it holds and however
\* often it runs: project name, rate, sessions (an open one stays open) and
\* subprojects are unchanged, and so is the lifecycle state.
C20_AnalyzeReadOnly ==
    /\ analyze_work_sheet(file, now).file = file
    /\ last.op = "analyze" =>
           /\ file = last.pre
           /\ is_none(last.mem)
           /\ Holds(file) =>
                  /\ last.res = Ok
                  /\ Ledger(file) = unwrap(last.loaded)
                  /\ Running(file) = Running(last.pre)

\* An analysis has run on a time sheet with a rate, a subproject and an
\* open session, and the session is still open.
C20_Witness ==
    /\ last.op = "analyze"
    /\ last.res = Ok
    /\ Running(last.pre)
    /\ Running(file)
    /\ Ledger(file).subprojects # <<>>
    /\ is_some(Ledger(file).hourly_rate)

\* C21: save replaces the content of the file in one step: whatever a load
\* finds, before, after or during a save of another invocation, is a
\* complete time sheet, the one stored before or the new one, never an
\* empty or partly written file.
C21_AtomicSave ==
    last.op = "race" =>
        /\ Holds(file)
        /\ \A p \in 1..2 :
               last.inv[p].pc # "ready" => is_some(last.inv[p].loaded)

\* An invocation has loaded the file while the other was between its
\* File::create and its write.
LoadDuringSave ==
    /\ last.op = "race"
    /\ \E p \in 1..2 :
           /\ last.inv[p].pc = "done"
           /\ last.inv[p].res \in {SerdeJSON, Panic}
           /\ last.inv[Other(p)].pc = "created"

\* Both invocations are over, and both loaded the file before either began
\* to save: each changed the time sheet it loaded and saved the result.
Raced ==
    /\ last.op = "race"
    /\ \A p \in 1..2 :
           /\ last.inv[p].pc = "done"
           /\ is_some(last.inv[p].mem)
           /\ last.inv[p].before_saves

\* C24: when two changing commands run on the same file with their loads
\* and saves interleaved, neither reports an error, and the file ends as the
\* time sheet of the invocation that saved last: its own change applied to
\* what it loaded, the other's change lost.
C24_LastWriterWins ==
    Raced =>
        /\ \A p \in 1..2 : last.inv[p].res = Ok
        /\ LET winner == last.inv[last.saved[2]]
           IN /\ file = Written(to_json(unwrap(winner.mem)))
              /\ unwrap(winner.mem) =
                     change_on(winner.cmd, unwrap(winner.loaded), winner.t).sheet

\* The part of C24 that holds: when neither save began while the other was
\* between its File::create and its write.
LastWriterWinsWithSavesApart ==
    (Raced /\ \A p \in 1..2 : ~last.inv[p].overlapped) =>
        /\ \A p \in 1..2 : last.inv[p].res = Ok
        /\ LET winner == last.inv[last.saved[2]]
           IN /\ file = Written(to_json(unwrap(winner.mem)))
              /\ unwrap(winner.mem) =
                     change_on(winner.cmd, unwrap(winner.loaded), winner.t).sheet
        /\ unwrap(last.inv[1].loaded) = unwrap(last.inv[2].loaded)

\* The two saves overlapped, and the file ends as no time sheet at all.
RaceGarbled ==
    /\ Raced
    /\ file = Garbled

\* The number of words of more than no character in a line.
Words(line) == Cardinality({i \in 1..Len(line) : line[i] > 0})

\* The words of the lines, one line after the other.
RECURSIVE Flatten(_)
Flatten(lines) ==
    IF lines = <<>> THEN <<>> ELSE Head(lines) \o Flatten(Tail(lines))

\* C22: for every description and every budget n, split_description_string
\* yields at least one line, the lines hold the words of the description in
\* their order, none of them split, and every line of more than one word is
\* at most n user-perceived characters long.
C22_WrapWithinBudget ==
    last.op = "split" =>
        /\ Len(last.lines) >= 1
        /\ Flatten(last.lines) = last.words
        /\ \A i \in 1..Len(last.lines) :
               Words(last.lines[i]) > 1 =>
                   join_count(last.lines[i]) <= last.max_line_length

\* The part of C22 that holds: at least one line, no word split, and a
\* line of more than one word at most one character over the budget.
WrapWithinBudgetAndOne ==
    last.op = "split" =>
        /\ Len(last.lines) >= 1
        /\ Flatten(last.lines) = last.words
        /\ \A i \in 1..Len(last.lines) :
               Len(last.lines[i]) > 1 =>
                   join_count(last.lines[i]) <= last.max_line_length + 1

\* "ab cd" wrapped into lines of four is the one line "ab cd", of five.
WrapOverBudget ==
    /\ last.op = "split"
    /\ last.words = <<2, 2>>
    /\ last.max_line_length = 4
    /\ last.lines = <<(<<2, 2>>)>>

\* A first word longer than the budget comes after an empty line.
WrapLeadingEmptyLine ==
    /\ last.op = "split"
    /\ last.words = <<3>>
    /\ last.max_line_length = 2
    /\ last.lines = <<(<<>>), (<<3>>)>>

\* The commands that save a time sheet.
Saving == {"init", "start", "stop", "switch", "add", "subprojects add"}

\* C23: whenever a command that saves reports success, the file holds the
\* whole text of the time sheet it saved and the next load succeeds; a write
\* or a flush that failed is reported as an error.
C23_WriteErrorsSurfaced ==
    (last.op \in Saving /\ last.res = Ok) =>
        /\ is_some(last.mem)
        /\ file = Written(to_json(unwrap(last.mem)))
        /\ load(file).res = Ok

\* The part of C23 that holds: a command that reports success leaves the
\* whole text of its time sheet, or the empty file.
SuccessLeavesTextOrEmptyFile ==
    (last.op \in Saving /\ last.res = Ok) =>
        /\ is_some(last.mem)
        /\ file \in {Written(to_json(unwrap(last.mem))), Truncated}

\* A command has reported success and left the empty file.
SuccessOverEmptyFile ==
    /\ last.op \in Saving
    /\ last.res = Ok
    /\ Holds(last.pre)
    /\ file = Truncated

\* The sessions v are in the order of time: by start, all but the last
\* closed, none stopped before its start, none started before the stop of
\* the one before it.
Chronological(v) ==
    /\ Sorted(v)
    /\ \A i \in 1..Len(v) :
           /\ i < Len(v) => is_some(v[i].stop)
           /\ is_some(v[i].stop) => unwrap(v[i].stop) >= v[i].start
           /\ (i > 1 /\ is_some(v[i - 1].stop)) =>
                  v[i].start >= unwrap(v[i - 1].stop)

\* C25: in every time sheet reached from init by start, stop and switch,
\* one at a time under a clock that never goes back, the sessions are in
\* the order of their starts, every session but the last is closed, every
\* closed session has its stop at or after its start, and each session
\* starts at or after the stop of the session before it.
C25_ChronologicalLedger ==
    Holds(file) => Chronological(Ledger(file).work_sessions)

\* Three sessions are stored, the last open, two of them with the same
\* start: the clock stood still between the commands.
C25_Witness ==
    /\ Holds(file)
    /\ last.op \in {"start", "switch"}
    /\ last.res = Ok
    /\ Len(Ledger(file).work_sessions) = 3
    /\ is_none(Ledger(file).work_sessions[3].stop)
    /\ Ledger(file).work_sessions[2].start = Ledger(file).work_sessions[3].start
    /\ Ledger(file).work_sessions[1].start < Ledger(file).work_sessions[2].start

\* C26: a successful start, stop, switch or add leaves the project name,
\* the hourly rate and the subprojects as they were stored, and a successful
\* subprojects add leaves the project name, the hourly rate and every
\* session as they were stored.
C26_Frame ==
    /\ (last.op \in {"start", "stop", "switch", "add"} /\ last.res = Ok) =>
           /\ Holds(last.pre)
           /\ Holds(file)
           /\ SameFrame(Ledger(file), Ledger(last.pre))
    /\ (last.op = "subprojects add" /\ last.res = Ok) =>
           /\ Holds(last.pre)
           /\ Holds(file)
           /\ Ledger(file).project_name = Ledger(last.pre).project_name
           /\ Ledger(file).hourly_rate = Ledger(last.pre).hourly_rate
           /\ Ledger(file).work_sessions = Ledger(last.pre).work_sessions

\* A session has been added to a time sheet with a rate and a subproject.
C26_Witness ==
    /\ last.op = "add"
    /\ last.res = Ok
    /\ is_some(Ledger(last.pre).hourly_rate)
    /\ Ledger(last.pre).subprojects # <<>>
    /\ Len(Ledger(file).work_sessions) = Len(Ledger(last.pre).work_sessions) + 1

\* A subproject has been added to a time sheet with a rate and sessions.
SubprojectAddedBesideSessions ==
    /\ last.op = "subprojects add"
    /\ last.res = Ok
    /\ is_some(Ledger(last.pre).hourly_rate)
    /\ Len(Ledger(last.pre).work_sessions) >= 2
    /\ Len(Ledger(file).subprojects) = Len(Ledger(last.pre).subprojects) + 1

\* What follows from C26: between two runs of init the stored project name
\* and hourly rate never change, whatever command runs and however it ends.
NameAndRateKeptBetweenInits ==
    [][(Holds(file) /\ last'.op # "init") =>
          /\ Holds(file')
          /\ Ledger(file').project_name = Ledger(file).project_name
          /\ Ledger(file').hourly_rate = Ledger(file).hourly_rate]_vars

====
